---- MODULE Spec2Model ----
(***************************************************************************)
(* Model of src/model/manifest.rs: the serde data model of the Iceberg     *)
(* manifest layer.  The structs derive Serialize/Deserialize; what a       *)
(* decode does is fixed by each field's type and its serde / serde_with    *)
(* attributes.  A container record is modelled as a tagged wire value      *)
(* (the apache_avro Value the reader yields, unions unwrapped), and each   *)
(* derive(Deserialize) as an operator from wire values to results.         *)
(***************************************************************************)
EXTENDS Integers, Sequences, FiniteSets, TLC

(***************************************************************************)
(* Bounds of the model.                                                    *)
(***************************************************************************)
MaxPairs == 3       \* longest pair list put through the pair codecs
MaxRecords == 3     \* most records in one container
MaxDeviations == 2  \* most fields of a record that deviate from a well-formed one

(***************************************************************************)
(* Wire values: what the container reader hands to from_value.             *)
(***************************************************************************)
VNull == [tag |-> "null"]
VBoolean(b) == [tag |-> "boolean", v |-> b]
VInt(n) == [tag |-> "int", v |-> n]
VLong(n) == [tag |-> "long", v |-> n]
VString(s) == [tag |-> "string", v |-> s]
VBytes(b) == [tag |-> "bytes", v |-> b]
VArray(items) == [tag |-> "array", v |-> items]
VRecord(fields) == [tag |-> "record", v |-> fields]

(***************************************************************************)
(* Result<T, Error> and Option<T>.                                         *)
(***************************************************************************)
Ok(x) == [ok |-> TRUE, val |-> x]
Err(e) == [ok |-> FALSE, err |-> e]
None == [some |-> FALSE]
Some(x) == [some |-> TRUE, val |-> x]

(***************************************************************************)
(* Field types.  A decoder of a type built from another (Option<T>,        *)
(* Vec<T>, DefaultOnNull<T>) is given the wire value and what the inner    *)
(* decoder makes of it.                                                    *)
(***************************************************************************)
\* i32 (every integer of the model fits 32 bits)
De_i32(w) ==
    IF w.tag \in {"int", "long"} THEN Ok(w.v) ELSE Err("invalid type")

\* i64
De_i64(w) ==
    IF w.tag \in {"int", "long"} THEN Ok(w.v) ELSE Err("invalid type")

\* String
De_String(w) ==
    IF w.tag = "string" THEN Ok(w.v) ELSE Err("invalid type")

\* bool
De_bool(w) ==
    IF w.tag = "boolean" THEN Ok(w.v) ELSE Err("invalid type")

\* serde_json::Value: any wire value, null included, carried as it is
De_Value(w) == Ok(w)

\* serde_with::Bytes into Vec<u8>
De_Bytes(w) ==
    IF w.tag = "bytes" THEN Ok(w.v) ELSE Err("invalid type")

\* Option<T>: null is None, anything else is decoded as T (inner)
De_Option(w, inner) ==
    IF w = VNull THEN Ok(None)
    ELSE IF inner.ok THEN Ok(Some(inner.val)) ELSE inner

\* Option<i32> with null for 0: what unwrap_or_default on the way in would do
De_Option_i32_zero(w) ==
    IF w = VNull THEN Ok(Some(0)) ELSE De_Option(w, De_i32(w))

De_Option_i32(w) == De_Option(w, De_i32(w))

\* Option<i64> with a value put in the place of null
De_Option_i64_zero(w) ==
    IF w = VNull THEN Ok(Some(0)) ELSE De_Option(w, De_i64(w))

De_Option_i64(w) == De_Option(w, De_i64(w))

\* the elements of an array of the wire
Elements(w) == IF w.tag = "array" THEN w.v ELSE <<>>

\* Vec<T>: element by element, in order (inner[i] is element i decoded as
\* T); the first failing element fails all
De_Vec(w, inner) ==
    IF w.tag # "array" THEN Err("invalid type")
    ELSE IF \E i \in 1..Len(inner) : ~inner[i].ok
    THEN inner[CHOOSE i \in 1..Len(inner) :
                   ~inner[i].ok /\ \A j \in 1..(i - 1) : inner[j].ok]
    ELSE Ok([i \in 1..Len(inner) |-> inner[i].val])

\* serde_with::DefaultOnNull<T>: null is T::default(), the empty collection
De_DefaultOnNull(w, inner) ==
    IF w = VNull THEN Ok(<<>>) ELSE inner

(***************************************************************************)
(* Fields of a derived struct.  fields is the record's name -> wire value  *)
(* function; a field the record does not carry is not in its domain.  r is *)
(* what the field's type makes of the value found under the name.          *)
(***************************************************************************)
Missing == [tag |-> "missing"]

Get(fields, name) == IF name \in DOMAIN fields THEN fields[name] ELSE Missing

\* a field with no attribute: missing is an error
Field(fields, name, r) ==
    IF name \in DOMAIN fields THEN r ELSE Err("missing field")

\* Option<T> field: missing is None
OptionField(fields, name, r) ==
    IF name \in DOMAIN fields THEN r ELSE Ok(None)

\* #[serde(default)] on a Vec or String field: missing is the empty value
DefaultField(fields, name, r, dflt) ==
    IF name \in DOMAIN fields THEN r ELSE Ok(dflt)

\* the struct as a whole: a present field of the wrong shape is reported
\* while the fields are visited, a missing one after all were visited
Struct(rs) ==
    IF \E n \in DOMAIN rs : ~rs[n].ok /\ rs[n].err # "missing field"
    THEN Err("invalid type")
    ELSE IF \E n \in DOMAIN rs : ~rs[n].ok
    THEN Err("missing field")
    ELSE Ok([n \in DOMAIN rs |-> rs[n].val])

(***************************************************************************)
(* BytesPair and NumPair.                                                  *)
(***************************************************************************)
BytesPair_serialize(p) == VRecord([key |-> VInt(p.key), value |-> VBytes(p.value)])

BytesPair_deserialize(w) ==
    IF w.tag # "record" THEN Err("invalid type")
    ELSE Struct([key |-> Field(w.v, "key", De_i32(Get(w.v, "key"))),
                    value |-> Field(w.v, "value", De_Bytes(Get(w.v, "value")))])

NumPair_serialize(p) == VRecord([key |-> VInt(p.key), value |-> VLong(p.value)])

NumPair_deserialize(w) ==
    IF w.tag # "record" THEN Err("invalid type")
    ELSE Struct([key |-> Field(w.v, "key", De_i32(Get(w.v, "key"))),
                    value |-> Field(w.v, "value", De_i64(Get(w.v, "value")))])

BytesPair_serialize_as(source) ==
    LET p == [key |-> source[1], value |-> source[2]]
    IN BytesPair_serialize(p)

BytesPair_deserialize_as(w) ==
    LET pair == BytesPair_deserialize(w)
    IN IF pair.ok THEN Ok(<<pair.val.key, pair.val.value>>) ELSE pair

NumPair_serialize_as(source) ==
    LET p == [key |-> source[1], value |-> source[2]]
    IN NumPair_serialize(p)

NumPair_deserialize_as(w) ==
    LET pair == NumPair_deserialize(w)
    IN IF pair.ok THEN Ok(<<pair.val.key, pair.val.value>>) ELSE pair

\* Vec<NumPair> / Vec<BytesPair> as the adapters of a Vec<(i32, _)> field
\* the pairs collected through a map ordered by key
De_Vec_NumPair_sorted(w) ==
    LET r == De_Vec(w, [i \in 1..Len(Elements(w)) |-> NumPair_deserialize_as(Elements(w)[i])])
    IN IF r.ok THEN Ok(SortSeq(r.val, LAMBDA a, b : a[1] < b[1])) ELSE r

Ser_Vec_NumPair(list) == VArray([i \in 1..Len(list) |-> NumPair_serialize_as(list[i])])
De_Vec_NumPair(w) ==
    De_Vec(w, [i \in 1..Len(Elements(w)) |-> NumPair_deserialize_as(Elements(w)[i])])
Ser_Vec_BytesPair(list) == VArray([i \in 1..Len(list) |-> BytesPair_serialize_as(list[i])])
De_Vec_BytesPair(w) ==
    De_Vec(w, [i \in 1..Len(Elements(w)) |-> BytesPair_deserialize_as(Elements(w)[i])])

(***************************************************************************)
(* The adapters named by the serde_as attributes of DataFile.              *)
(***************************************************************************)
\* Vec<NumPair> without DefaultOnNull
De_Vec_NumPair_strict(w) ==
    De_Vec(w, [i \in 1..Len(Elements(w)) |-> NumPair_deserialize_as(Elements(w)[i])])

De_DefaultOnNull_Vec_NumPair(w) == De_DefaultOnNull(w, De_Vec_NumPair(w))
De_DefaultOnNull_Vec_BytesPair(w) == De_DefaultOnNull(w, De_Vec_BytesPair(w))
De_DefaultOnNull_Bytes(w) == De_DefaultOnNull(w, De_Bytes(w))
\* Vec<i64> put in ascending order on the way in
De_Vec_i64_sorted(w) ==
    LET r == De_Vec(w, [i \in 1..Len(Elements(w)) |-> De_i64(Elements(w)[i])])
    IN IF r.ok THEN Ok(SortSeq(r.val, <)) ELSE r

De_Vec_i64(w) == De_Vec(w, [i \in 1..Len(Elements(w)) |-> De_i64(Elements(w)[i])])
De_Vec_i32(w) == De_Vec(w, [i \in 1..Len(Elements(w)) |-> De_i32(Elements(w)[i])])

(***************************************************************************)
(* The entities.  Each operator is the derive(Deserialize) of the struct:  *)
(* one line per field, in the order of declaration.                        *)
(***************************************************************************)
\* ManifestList with #[serde(default)] on the struct
ManifestList_deserialize_default(w) ==
    IF w.tag # "record" THEN Err("invalid type")
    ELSE Struct([
        manifest_path     |-> DefaultField(w.v, "manifest_path", De_String(Get(w.v, "manifest_path")), ""),
        manifest_length   |-> DefaultField(w.v, "manifest_length", De_i64(Get(w.v, "manifest_length")), 0),
        partition_spec_id |-> DefaultField(w.v, "partition_spec_id", De_i32(Get(w.v, "partition_spec_id")), 0),
        sequence_number   |-> DefaultField(w.v, "sequence_number", De_i32(Get(w.v, "sequence_number")), 0),
        content           |-> DefaultField(w.v, "content", De_i32(Get(w.v, "content")), 0)])

ManifestList_deserialize(w) ==
    IF w.tag # "record" THEN Err("invalid type")
    ELSE Struct([
        manifest_path     |-> Field(w.v, "manifest_path", De_String(Get(w.v, "manifest_path"))),
        manifest_length   |-> Field(w.v, "manifest_length", De_i64(Get(w.v, "manifest_length"))),
        partition_spec_id |-> Field(w.v, "partition_spec_id", De_i32(Get(w.v, "partition_spec_id"))),
        sequence_number   |-> Field(w.v, "sequence_number", De_i32(Get(w.v, "sequence_number"))),
        content           |-> Field(w.v, "content", De_i32(Get(w.v, "content")))])

FieldSummary_deserialize(w) ==
    IF w.tag # "record" THEN Err("invalid type")
    ELSE Struct([
        contains_null |-> Field(w.v, "contains_null", De_bool(Get(w.v, "contains_null"))),
        contains_nan  |-> Field(w.v, "contains_nan", De_bool(Get(w.v, "contains_nan"))),
        lower_bound   |-> Field(w.v, "lower_bound", De_Bytes(Get(w.v, "lower_bound"))),
        upper_bound   |-> Field(w.v, "upper_bound", De_Bytes(Get(w.v, "upper_bound")))])

De_Vec_FieldSummary(w) ==
    De_Vec(w, [i \in 1..Len(Elements(w)) |-> FieldSummary_deserialize(Elements(w)[i])])

ManifestFile_deserialize(w) ==
    IF w.tag # "record" THEN Err("invalid type")
    ELSE Struct([
        manifest_path        |-> Field(w.v, "manifest_path", De_String(Get(w.v, "manifest_path"))),
        manifest_length      |-> Field(w.v, "manifest_length", De_i64(Get(w.v, "manifest_length"))),
        added_snapshot_id    |-> Field(w.v, "added_snapshot_id", De_i64(Get(w.v, "added_snapshot_id"))),
        added_files_count    |-> OptionField(w.v, "added_files_count", De_Option_i32(Get(w.v, "added_files_count"))),
        existing_files_count |-> OptionField(w.v, "existing_files_count", De_Option_i32(Get(w.v, "existing_files_count"))),
        deleted_fields_count |-> OptionField(w.v, "deleted_fields_count", De_Option_i32(Get(w.v, "deleted_fields_count"))),
        partitions           |-> Field(w.v, "partitions", De_Vec_FieldSummary(Get(w.v, "partitions"))),
        added_rows_count     |-> OptionField(w.v, "added_rows_count", De_Option_i64(Get(w.v, "added_rows_count"))),
        existing_rows_count  |-> OptionField(w.v, "existing_rows_count", De_Option_i64(Get(w.v, "existing_rows_count"))),
        deleted_rows_count   |-> OptionField(w.v, "deleted_rows_count", De_Option_i64(Get(w.v, "deleted_rows_count"))),
        partition_spec_id    |-> Field(w.v, "partition_spec_id", De_i32(Get(w.v, "partition_spec_id")))])

DataFile_deserialize(w) ==
    IF w.tag # "record" THEN Err("invalid type")
    ELSE Struct([
        file_path          |-> Field(w.v, "file_path", De_String(Get(w.v, "file_path"))),
        file_format        |-> Field(w.v, "file_format", De_String(Get(w.v, "file_format"))),
        partition          |-> Field(w.v, "partition", De_Value(Get(w.v, "partition"))),
        record_count       |-> Field(w.v, "record_count", De_i64(Get(w.v, "record_count"))),
        file_size_in_bytes |-> Field(w.v, "file_size_in_bytes", De_i64(Get(w.v, "file_size_in_bytes"))),
        column_sizes       |-> DefaultField(w.v, "column_sizes", De_DefaultOnNull_Vec_NumPair(Get(w.v, "column_sizes")), <<>>),
        value_counts       |-> DefaultField(w.v, "value_counts", De_DefaultOnNull_Vec_NumPair(Get(w.v, "value_counts")), <<>>),
        null_value_counts  |-> DefaultField(w.v, "null_value_counts", De_DefaultOnNull_Vec_NumPair(Get(w.v, "null_value_counts")), <<>>),
        distinct_counts    |-> DefaultField(w.v, "distinct_counts", De_DefaultOnNull_Vec_NumPair(Get(w.v, "distinct_counts")), <<>>),
        lower_bounds       |-> DefaultField(w.v, "lower_bounds", De_DefaultOnNull_Vec_BytesPair(Get(w.v, "lower_bounds")), <<>>),
        upper_bounds       |-> DefaultField(w.v, "upper_bounds", De_DefaultOnNull_Vec_BytesPair(Get(w.v, "upper_bounds")), <<>>),
        key_metadata       |-> DefaultField(w.v, "key_metadata", De_DefaultOnNull_Bytes(Get(w.v, "key_metadata")), <<>>),
        split_offsets      |-> DefaultField(w.v, "split_offsets", De_Vec_i64(Get(w.v, "split_offsets")), <<>>),
        equality_ids       |-> DefaultField(w.v, "equality_ids", De_Vec_i32(Get(w.v, "equality_ids")), <<>>),
        content            |-> Field(w.v, "content", De_i32(Get(w.v, "content"))),
        nan_value_counts   |-> DefaultField(w.v, "nan_value_counts", De_DefaultOnNull_Vec_NumPair(Get(w.v, "nan_value_counts")), <<>>),
        sort_order_id      |-> Field(w.v, "sort_order_id", De_i32(Get(w.v, "sort_order_id")))])

ManifestEntry_deserialize(w) ==
    IF w.tag # "record" THEN Err("invalid type")
    ELSE Struct([
        status               |-> Field(w.v, "status", De_i32(Get(w.v, "status"))),
        snapshot_id          |-> OptionField(w.v, "snapshot_id", De_Option_i64(Get(w.v, "snapshot_id"))),
        data_file            |-> Field(w.v, "data_file", DataFile_deserialize(Get(w.v, "data_file"))),
        sequence_number      |-> OptionField(w.v, "sequence_number", De_Option_i64(Get(w.v, "sequence_number"))),
        file_sequence_number |-> OptionField(w.v, "file_sequence_number", De_Option_i64(Get(w.v, "file_sequence_number")))])

\* rename_all = "kebab-case": the names of the wire carry hyphens
Manifest_deserialize(w) ==
    IF w.tag # "record" THEN Err("invalid type")
    ELSE Struct([
        schema            |-> Field(w.v, "schema", ManifestEntry_deserialize(Get(w.v, "schema"))),
        schema_id         |-> Field(w.v, "schema-id", De_i64(Get(w.v, "schema-id"))),
        partition_spec    |-> Field(w.v, "partition-spec", De_Value(Get(w.v, "partition-spec"))),
        partition_spec_id |-> DefaultField(w.v, "partition-spec-id", De_String(Get(w.v, "partition-spec-id")), ""),
        format_version    |-> Field(w.v, "format-version", De_i64(Get(w.v, "format-version"))),
        content           |-> Field(w.v, "content", De_String(Get(w.v, "content")))])

(***************************************************************************)
(* Records put to the decoders: a well-formed record of each entity, and   *)
(* the same record with up to MaxDeviations fields missing, null, of       *)
(* another value or of the wrong shape.  A null for a plain Vec field      *)
(* (split_offsets, equality_ids) is left out: what it decodes to is the    *)
(* container library's choice, not this file's.                            *)
(***************************************************************************)
Deviate(fields, name, w) ==
    IF w = Missing
    THEN [n \in DOMAIN fields \ {name} |-> fields[n]]
    ELSE [n \in DOMAIN fields \cup {name} |-> IF n = name THEN w ELSE fields[n]]

\* the same at a path of names, through the records nested on the way
RECURSIVE DeviateAt(_, _, _)
DeviateAt(fields, path, w) ==
    IF Len(path) = 1 THEN Deviate(fields, path[1], w)
    ELSE IF path[1] \in DOMAIN fields /\ fields[path[1]].tag = "record"
    THEN Deviate(fields, path[1],
                 VRecord(DeviateAt(fields[path[1]].v, Tail(path), w)))
    ELSE fields

\* the records that deviate from base in at most k places
RECURSIVE Deviated(_, _, _)
Deviated(base, alts, k) ==
    IF k = 0 THEN {base}
    ELSE LET prev == Deviated(base, alts, k - 1)
         IN prev \cup {DeviateAt(f, d[1], d[2]) : f \in prev, d \in alts}

Under(name, alts) == {<< <<name>> \o d[1], d[2]>> : d \in alts}

Longs(s) == VArray([i \in 1..Len(s) |-> VLong(s[i])])
Ints(s) == VArray([i \in 1..Len(s) |-> VInt(s[i])])

NumStats == {"column_sizes", "value_counts", "null_value_counts",
             "distinct_counts", "nan_value_counts"}
BytesStats == {"lower_bounds", "upper_bounds"}
BadPairs == VArray(<<VRecord([key |-> VInt(1)])>>)

DataFileBase == [
    file_path          |-> VString("a.parquet"),
    file_format        |-> VString("parquet"),
    partition          |-> VRecord(<<>>),
    record_count       |-> VLong(100),
    file_size_in_bytes |-> VLong(2048),
    column_sizes       |-> Ser_Vec_NumPair(<<<<1, 10>>, <<1, 20>>>>),
    value_counts       |-> Ser_Vec_NumPair(<<<<2, 10>>, <<1, 10>>>>),
    null_value_counts  |-> Ser_Vec_NumPair(<<<<1, 10>>>>),
    distinct_counts    |-> Ser_Vec_NumPair(<<<<1, 10>>>>),
    lower_bounds       |-> Ser_Vec_BytesPair(<<<<2, <<7>>>>, <<1, <<>>>>>>),
    upper_bounds       |-> Ser_Vec_BytesPair(<<<<1, <<7, 8>>>>>>),
    key_metadata       |-> VBytes(<<9>>),
    split_offsets      |-> Longs(<<0, 400, 900>>),
    content            |-> VInt(0),
    nan_value_counts   |-> Ser_Vec_NumPair(<<<<1, 10>>>>),
    sort_order_id      |-> VInt(0)]

DataFileAlts ==
    {<< <<"file_path">>, x>> : x \in {Missing, VLong(1)}}
    \cup {<< <<"file_format">>, x>> : x \in {Missing, VString("avro"), VString("orc"), VString("csv")}}
    \cup {<< <<"partition">>, x>> : x \in {Missing, VNull}}
    \cup {<< <<"record_count">>, x>> : x \in {Missing, VNull, VLong(0)}}
    \cup {<< <<"file_size_in_bytes">>, x>> : x \in {Missing}}
    \cup {<< <<f>>, x>> : f \in NumStats \cup BytesStats,
                         x \in {Missing, VNull, VArray(<<>>)}}
    \cup {<< <<f>>, x>> : f \in {"column_sizes", "lower_bounds"}, x \in {BadPairs}}
    \cup {<< <<"key_metadata">>, x>> : x \in {Missing, VNull, VBytes(<<>>), VString("k")}}
    \cup {<< <<"split_offsets">>, x>> : x \in {Missing, Longs(<<>>), Longs(<<900, 0, 400>>),
                                          Longs(<<400, 400>>), VString("0")}}
    \cup {<< <<"equality_ids">>, x>> : x \in {Ints(<<>>), Ints(<<1>>), Ints(<<2, 1>>)}}
    \cup {<< <<"content">>, x>> : x \in {Missing, VNull, VInt(-1), VInt(1), VInt(2), VInt(3)}}
    \cup {<< <<"sort_order_id">>, x>> : x \in {Missing}}

DataFileInputs(k) == {VRecord(f) : f \in Deviated(DataFileBase, DataFileAlts, k)}

ManifestEntryBase == [
    status               |-> VInt(1),
    snapshot_id          |-> VLong(7),
    data_file            |-> VRecord(DataFileBase),
    sequence_number      |-> VLong(3),
    file_sequence_number |-> VLong(3)]

ManifestEntryOwnAlts ==
    {<< <<"status">>, x>> : x \in {Missing, VNull, VInt(-1), VInt(0), VInt(2), VInt(3)}}
    \cup {<< <<"snapshot_id">>, x>> : x \in {Missing, VNull, VString("7")}}
    \cup {<< <<"data_file">>, x>> : x \in {Missing}}
    \cup {<< <<"sequence_number">>, x>> : x \in {Missing, VNull}}
    \cup {<< <<"file_sequence_number">>, x>> : x \in {Missing, VNull}}

ManifestEntryAlts == ManifestEntryOwnAlts \cup Under("data_file", DataFileAlts)

ManifestEntryInputs(k) == {VRecord(f) : f \in Deviated(ManifestEntryBase, ManifestEntryAlts, k)}

ManifestBase ==
    [n \in {"schema", "schema-id", "partition-spec", "partition-spec-id",
            "format-version", "content"} |->
        CASE n = "schema" -> VRecord(ManifestEntryBase)
          [] n = "schema-id" -> VLong(0)
          [] n = "partition-spec" -> VArray(<<>>)
          [] n = "partition-spec-id" -> VString("0")
          [] n = "format-version" -> VLong(2)
          [] n = "content" -> VString("data")]

ManifestAlts ==
    {<< <<"schema">>, x>> : x \in {Missing}}
    \cup {<< <<"schema-id">>, x>> : x \in {Missing, VNull}}
    \cup {<< <<"partition-spec">>, x>> : x \in {Missing, VNull}}
    \cup {<< <<"partition-spec-id">>, x>> : x \in {Missing, VString("7"), VInt(0)}}
    \cup {<< <<"format-version">>, x>> : x \in {Missing}}
    \cup {<< <<"content">>, x>> : x \in {Missing, VString("deletes")}}
    \cup Under("schema", ManifestEntryOwnAlts)

ManifestInputs(k) == {VRecord(f) : f \in Deviated(ManifestBase, ManifestAlts, k)}

FieldSummaryBase == [
    contains_null |-> VBoolean(TRUE),
    contains_nan  |-> VBoolean(FALSE),
    lower_bound   |-> VBytes(<<1>>),
    upper_bound   |-> VBytes(<<2>>)]

FieldSummaryAlts ==
    {<< <<"contains_null">>, x>> : x \in {Missing, VNull, VBoolean(FALSE)}}
    \cup {<< <<"contains_nan">>, x>> : x \in {Missing}}
    \cup {<< <<f>>, x>> : f \in {"lower_bound", "upper_bound"},
                     x \in {Missing, VNull, VBytes(<<>>), VBytes(<<3, 4>>)}}

FieldSummaryInputs(k) == {VRecord(f) : f \in Deviated(FieldSummaryBase, FieldSummaryAlts, k)}

Counters == {"added_files_count", "existing_files_count", "deleted_fields_count",
             "added_rows_count", "existing_rows_count", "deleted_rows_count"}

ManifestFileBase == [
    manifest_path        |-> VString("m1.avro"),
    manifest_length      |-> VLong(1024),
    added_snapshot_id    |-> VLong(7),
    added_files_count    |-> VInt(5),
    existing_files_count |-> VInt(5),
    deleted_fields_count |-> VInt(5),
    partitions           |-> VArray(<<VRecord(FieldSummaryBase)>>),
    added_rows_count     |-> VLong(50),
    existing_rows_count  |-> VLong(50),
    deleted_rows_count   |-> VLong(50),
    partition_spec_id    |-> VInt(0)]

ManifestFileAlts ==
    {<< <<"manifest_path">>, x>> : x \in {Missing}}
    \cup {<< <<"manifest_length">>, x>> : x \in {Missing}}
    \cup {<< <<"added_snapshot_id">>, x>> : x \in {Missing, VNull}}
    \cup {<< <<f>>, x>> : f \in Counters, x \in {Missing, VNull, VInt(0), VString("5")}}
    \cup {<< <<"partitions">>, x>> : x \in {Missing, VArray(<<>>)}}
    \cup {<< <<"partitions">>, VArray(<<VRecord(FieldSummaryBase), s>>)>> : s \in FieldSummaryInputs(1)}
    \cup {<< <<"partition_spec_id">>, x>> : x \in {Missing}}

ManifestFileInputs(k) == {VRecord(f) : f \in Deviated(ManifestFileBase, ManifestFileAlts, k)}

ManifestListBase == [
    manifest_path     |-> VString("m1.avro"),
    manifest_length   |-> VLong(1024),
    partition_spec_id |-> VInt(0),
    sequence_number   |-> VInt(1),
    content           |-> VInt(0)]

ManifestListAlts ==
    {<< <<"manifest_path">>, x>> : x \in {Missing, VNull}}
    \cup {<< <<"manifest_length">>, x>> : x \in {Missing, VLong(0)}}
    \cup {<< <<"partition_spec_id">>, x>> : x \in {Missing, VNull}}
    \cup {<< <<"sequence_number">>, x>> : x \in {Missing, VInt(0)}}
    \cup {<< <<"content">>, x>> : x \in {Missing, VInt(1), VInt(5)}}

ManifestListInputs(k) == {VRecord(f) : f \in Deviated(ManifestListBase, ManifestListAlts, k)}

SeqsUpTo(S, n) == UNION {[1..k -> S] : k \in 0..n}

NumPairs == {<<k, x>> : k \in {1, 2}, x \in {10, 20}}
BytesPairs == {<<k, b>> : k \in {1, 2}, b \in {<<>>, <<7>>, <<7, 8>>}}

(***************************************************************************)
(* Containers: what apache_avro::Reader yields, item by item.  An item is  *)
(* a record or the reader's own error.                                     *)
(***************************************************************************)
ReaderError == [tag |-> "reader error"]

ManifestEntryItems == {
    ReaderError,
    VRecord(ManifestEntryBase),
    VRecord(Deviate(ManifestEntryBase, "status", VInt(3))),
    VRecord(Deviate(ManifestEntryBase, "sequence_number", VNull)),
    VRecord(Deviate(ManifestEntryBase, "status", Missing)),
    VRecord(Deviate(ManifestEntryBase, "data_file",
                    VRecord(Deviate(DataFileBase, "content", Missing))))}

ManifestItems == {
    ReaderError,
    VRecord(ManifestBase),
    VRecord(Deviate(ManifestBase, "partition-spec-id", Missing)),
    VRecord(Deviate(ManifestBase, "schema-id", Missing))}

(***************************************************************************)
(* State.  op is the operation under way and input what it was given;      *)
(* output is its result once it returned; pos and printed are the position *)
(* of a container pass and the entities it printed so far.                 *)
(***************************************************************************)
VARIABLES op, input, output, pos, printed
vars == <<op, input, output, pos, printed>>

Pending == [pending |-> TRUE]

Init ==
    /\ output = Pending
    /\ pos = 1
    /\ printed = <<>>
    /\ \/ op = "NumPair" /\ input \in SeqsUpTo(NumPairs, MaxPairs)
       \/ op = "BytesPair" /\ input \in SeqsUpTo(BytesPairs, MaxPairs)
       \/ op = "ManifestList" /\ input \in ManifestListInputs(MaxDeviations)
       \/ op = "ManifestFile" /\ input \in ManifestFileInputs(MaxDeviations)
       \/ op = "FieldSummary" /\ input \in FieldSummaryInputs(MaxDeviations)
       \/ op = "Manifest" /\ input \in ManifestInputs(MaxDeviations)
       \/ op = "ManifestEntry" /\ input \in ManifestEntryInputs(MaxDeviations)
       \/ op = "DataFile" /\ input \in DataFileInputs(MaxDeviations)
       \/ op = "test_parse_manifest_lists" /\ input \in SeqsUpTo(ManifestItems, MaxRecords)
       \/ op = "test_parse_manifest_entry" /\ input \in SeqsUpTo(ManifestEntryItems, MaxRecords)

\* a Vec<(i32, i64)> field written through Vec<NumPair> and read back
RoundTripNumPair ==
    /\ op = "NumPair" /\ output = Pending
    /\ output' = De_Vec_NumPair(Ser_Vec_NumPair(input))
    /\ UNCHANGED <<op, input, pos, printed>>

\* a Vec<(i32, Vec<u8>)> field written through Vec<BytesPair> and read back
RoundTripBytesPair ==
    /\ op = "BytesPair" /\ output = Pending
    /\ output' = De_Vec_BytesPair(Ser_Vec_BytesPair(input))
    /\ UNCHANGED <<op, input, pos, printed>>

\* from_value::<T>(&value) for each entity
FromValueManifestList ==
    /\ op = "ManifestList" /\ output = Pending
    /\ output' = ManifestList_deserialize(input)
    /\ UNCHANGED <<op, input, pos, printed>>

FromValueManifestFile ==
    /\ op = "ManifestFile" /\ output = Pending
    /\ output' = ManifestFile_deserialize(input)
    /\ UNCHANGED <<op, input, pos, printed>>

FromValueFieldSummary ==
    /\ op = "FieldSummary" /\ output = Pending
    /\ output' = FieldSummary_deserialize(input)
    /\ UNCHANGED <<op, input, pos, printed>>

FromValueManifest ==
    /\ op = "Manifest" /\ output = Pending
    /\ output' = Manifest_deserialize(input)
    /\ UNCHANGED <<op, input, pos, printed>>

FromValueManifestEntry ==
    /\ op = "ManifestEntry" /\ output = Pending
    /\ output' = ManifestEntry_deserialize(input)
    /\ UNCHANGED <<op, input, pos, printed>>

FromValueDataFile ==
    /\ op = "DataFile" /\ output = Pending
    /\ output' = DataFile_deserialize(input)
    /\ UNCHANGED <<op, input, pos, printed>>

\* one turn of `for value in reader` in test_parse_manifest_lists:
\* value? returns the reader's error, from_value(..)? the decode's error,
\* otherwise the entity is printed and the loop goes on
test_parse_manifest_lists_loop ==
    /\ op = "test_parse_manifest_lists" /\ output = Pending
    /\ pos <= Len(input)
    /\ LET value == input[pos]
           manifest_list == Manifest_deserialize(value)
       IN IF value = ReaderError
          THEN output' = Err("reader error") /\ UNCHANGED <<pos, printed>>
          ELSE IF ~manifest_list.ok
          THEN output' = Err("failed to read manifest list") /\ UNCHANGED <<pos, printed>>
          ELSE /\ printed' = Append(printed, manifest_list.val)
               /\ pos' = pos + 1
               /\ UNCHANGED output
    /\ UNCHANGED <<op, input>>

\* the reader is exhausted: Ok(())
test_parse_manifest_lists_return ==
    /\ op = "test_parse_manifest_lists" /\ output = Pending
    /\ pos > Len(input)
    /\ output' = Ok(<<>>)
    /\ UNCHANGED <<op, input, pos, printed>>

\* the loop with a failed record skipped instead of returned
test_parse_manifest_entry_loop_skip ==
    /\ op = "test_parse_manifest_entry" /\ output = Pending
    /\ pos <= Len(input)
    /\ LET value == input[pos]
           manifest == ManifestEntry_deserialize(value)
       IN IF value = ReaderError
          THEN output' = Err("reader error") /\ UNCHANGED <<pos, printed>>
          ELSE IF ~manifest.ok
          THEN pos' = pos + 1 /\ UNCHANGED <<output, printed>>
          ELSE /\ printed' = Append(printed, manifest.val)
               /\ pos' = pos + 1
               /\ UNCHANGED output
    /\ UNCHANGED <<op, input>>

test_parse_manifest_entry_loop ==
    /\ op = "test_parse_manifest_entry" /\ output = Pending
    /\ pos <= Len(input)
    /\ LET value == input[pos]
           manifest == ManifestEntry_deserialize(value)
       IN IF value = ReaderError
          THEN output' = Err("reader error") /\ UNCHANGED <<pos, printed>>
          ELSE IF ~manifest.ok
          THEN output' = Err("failed to read manifest") /\ UNCHANGED <<pos, printed>>
          ELSE /\ printed' = Append(printed, manifest.val)
               /\ pos' = pos + 1
               /\ UNCHANGED output
    /\ UNCHANGED <<op, input>>

test_parse_manifest_entry_return ==
    /\ op = "test_parse_manifest_entry" /\ output = Pending
    /\ pos > Len(input)
    /\ output' = Ok(<<>>)
    /\ UNCHANGED <<op, input, pos, printed>>

Next ==
    \/ RoundTripNumPair
    \/ RoundTripBytesPair
    \/ FromValueManifestList
    \/ FromValueManifestFile
    \/ FromValueFieldSummary
    \/ FromValueManifest
    \/ FromValueManifestEntry
    \/ FromValueDataFile
    \/ test_parse_manifest_lists_loop
    \/ test_parse_manifest_lists_return
    \/ test_parse_manifest_entry_loop
    \/ test_parse_manifest_entry_return

Spec == Init /\ [][Next]_vars

(***************************************************************************)
(* What the claims speak of.                                               *)
(***************************************************************************)
Returned == output # Pending
Has(name) == name \in DOMAIN input.v
IsNull(name) == Has(name) /\ input.v[name] = VNull
IsInt(name) == Has(name) /\ input.v[name].tag \in {"int", "long"}
Values(w) == [i \in 1..Len(w.v) |-> w.v[i].v]

StatFields == NumStats \cup BytesStats \cup {"key_metadata"}
EmptyOf(name) == IF name = "key_metadata" THEN VBytes(<<>>) ELSE VArray(<<>>)
With(name, w) == VRecord(Deviate(input.v, name, w))

\* C1: a list of (i32, i64) pairs, and a list of (i32, bytes) pairs, written
\* pair by pair through the pair codec and read back is the same list: same
\* length, same pairs, same order, duplicates kept.
C1_RoundTrip ==
    (op \in {"NumPair", "BytesPair"} /\ Returned) => output = Ok(input)

C1_Witness ==
    /\ op = "NumPair" /\ Returned /\ output.ok
    /\ Len(input) >= 2
    /\ input[1][1] > input[2][1]
    /\ \E i, j \in 1..Len(input) : i # j /\ input[i][1] = input[j][1]

\* C2: a DataFile record whose statistics field or key_metadata is absent or
\* null decodes exactly as the record with that field present and empty
\* does, the field comes out empty, and a record well-formed in its other
\* fields decodes.
C2_NullDefault ==
    (op = "DataFile" /\ Returned) =>
        \A f \in StatFields :
            (~Has(f) \/ IsNull(f)) =>
                /\ output = DataFile_deserialize(With(f, EmptyOf(f)))
                /\ output.ok => output.val[f] = <<>>
                /\ Deviate(input.v, f, DataFileBase[f]) = DataFileBase => output.ok

C2_Witness ==
    /\ op = "DataFile" /\ Returned /\ output.ok
    /\ IsNull("column_sizes") /\ ~Has("key_metadata")
    /\ output.val.column_sizes = <<>> /\ output.val.key_metadata = <<>>

\* C3: a ManifestEntry whose status is outside {0,1,2}, and a DataFile whose
\* content is outside {0,1,2} or whose file_format is none of avro, orc,
\* parquet, does not decode.
C3_EnumDomain ==
    /\ (op = "ManifestEntry" /\ Returned /\ IsInt("status")
            /\ input.v.status.v \notin {0, 1, 2}) => ~output.ok
    /\ (op = "DataFile" /\ Returned /\ IsInt("content")
            /\ input.v.content.v \notin {0, 1, 2}) => ~output.ok
    /\ (op = "DataFile" /\ Returned /\ Has("file_format")
            /\ input.v.file_format.tag = "string"
            /\ input.v.file_format.v \notin {"avro", "orc", "parquet"}) => ~output.ok

\* C4: a decoded ManifestEntry has snapshot_id None where the record has it
\* null, sequence_number None where the record has it null, whatever the
\* status, and the value of the record where it has one; a null in either
\* field never makes the decode fail.
C4_InheritSignal ==
    (op = "ManifestEntry" /\ Returned) =>
        \A f \in {"snapshot_id", "sequence_number"} :
            /\ IsNull(f) =>
                /\ output.ok => output.val[f] = None
                /\ output.ok = ManifestEntry_deserialize(With(f, VLong(7))).ok
            /\ (IsInt(f) /\ output.ok) => output.val[f] = Some(input.v[f].v)

C4_Witness ==
    /\ op = "ManifestEntry" /\ Returned /\ output.ok
    /\ Get(input.v, "status") = VInt(1)
    /\ IsNull("sequence_number") /\ IsNull("snapshot_id")
    /\ output.val.sequence_number = None /\ output.val.snapshot_id = None

(***************************************************************************)
(* C5.  The first item of the container that is the reader's error or a    *)
(* record that does not decode; one past the end when there is none.       *)
(***************************************************************************)
Passes == {"test_parse_manifest_lists", "test_parse_manifest_entry"}

ItemOk(item) ==
    /\ item # ReaderError
    /\ IF op = "test_parse_manifest_lists"
       THEN Manifest_deserialize(item).ok
       ELSE ManifestEntry_deserialize(item).ok

FirstBad ==
    IF \E i \in 1..Len(input) : ~ItemOk(input[i])
    THEN CHOOSE i \in 1..Len(input) :
             ~ItemOk(input[i]) /\ \A j \in 1..(i - 1) : ItemOk(input[j])
    ELSE Len(input) + 1

\* C5: a container pass decodes the records in order up to the first that
\* fails and no further; it returns an error exactly when some record
\* failed, at that record, and Ok only after every record decoded.
C5_AbortOnFirstError ==
    op \in Passes =>
        /\ Len(printed) = pos - 1
        /\ pos <= FirstBad
        /\ (Returned /\ output.ok) =>
               FirstBad = Len(input) + 1 /\ Len(printed) = Len(input)
        /\ (Returned /\ ~output.ok) =>
               /\ FirstBad <= Len(input) /\ pos = FirstBad
               /\ output.err = IF input[pos] = ReaderError THEN "reader error"
                               ELSE IF op = "test_parse_manifest_lists"
                               THEN "failed to read manifest list"
                               ELSE "failed to read manifest"

C5_Witness ==
    /\ op = "test_parse_manifest_entry" /\ Returned /\ ~output.ok
    /\ Len(input) >= 3 /\ pos = 2
    /\ input[2] # ReaderError /\ ItemOk(input[3])
    /\ Len(printed) = 1

(***************************************************************************)
(* C6.  The fields of each entity as the container names them, and which   *)
(* of them the two null-default rules of the specification cover.          *)
(***************************************************************************)
Entities == {"ManifestList", "ManifestFile", "FieldSummary", "Manifest",
             "ManifestEntry", "DataFile"}

FieldsOf(e) ==
    CASE e = "ManifestList" -> DOMAIN ManifestListBase
      [] e = "ManifestFile" -> DOMAIN ManifestFileBase
      [] e = "FieldSummary" -> DOMAIN FieldSummaryBase
      [] e = "Manifest" -> DOMAIN ManifestBase
      [] e = "ManifestEntry" -> DOMAIN ManifestEntryBase
      [] e = "DataFile" -> DOMAIN DataFileBase \cup {"equality_ids"}

RuleFields(e) ==
    CASE e = "DataFile" -> StatFields
      [] e = "ManifestFile" -> Counters
      [] OTHER -> {}

\* the fields declared #[serde(default)] or Option<_>
DeclaredOptional(e) ==
    CASE e = "DataFile" -> StatFields \cup {"split_offsets", "equality_ids"}
      [] e = "ManifestFile" -> Counters
      [] e = "ManifestEntry" -> {"snapshot_id", "sequence_number", "file_sequence_number"}
      [] e = "Manifest" -> {"partition-spec-id"}
      [] OTHER -> {}

Decode(e, w) ==
    CASE e = "ManifestList" -> ManifestList_deserialize(w)
      [] e = "ManifestFile" -> ManifestFile_deserialize(w)
      [] e = "FieldSummary" -> FieldSummary_deserialize(w)
      [] e = "Manifest" -> Manifest_deserialize(w)
      [] e = "ManifestEntry" -> ManifestEntry_deserialize(w)
      [] e = "DataFile" -> DataFile_deserialize(w)

\* a well-formed value of a declared-optional field
Sample(e, f) ==
    CASE e = "DataFile" -> IF f = "equality_ids" THEN Ints(<<>>) ELSE DataFileBase[f]
      [] e = "ManifestFile" -> ManifestFileBase[f]
      [] e = "ManifestEntry" -> ManifestEntryBase[f]
      [] e = "Manifest" -> ManifestBase[f]

C7_AbsentBound ==
    (op = "FieldSummary" /\ Returned) =>
        \A f \in {"lower_bound", "upper_bound"} :
            ((~Has(f) \/ IsNull(f))
                /\ Deviate(input.v, f, FieldSummaryBase[f]) = FieldSummaryBase) =>
                    output.ok /\ output.val[f] = <<>>

\* C8: a decoded DataFile has equality_ids non-empty exactly when its
\* content is 2.
C8_EqualityIds ==
    (op = "DataFile" /\ Returned /\ output.ok) =>
        (output.val.equality_ids # <<>> <=> output.val.content = 2)

\* C9: a ManifestFile counter that is null decodes to None and one that is 0
\* to Some(0); a null counter never makes the decode fail.
C9_UnknownCounter ==
    (op = "ManifestFile" /\ Returned) =>
        \A f \in Counters :
            /\ IsNull(f) =>
                /\ output.ok => output.val[f] = None
                /\ output.ok = ManifestFile_deserialize(With(f, VInt(5))).ok
            /\ (IsInt(f) /\ output.ok) =>
                   output.val[f] = Some(input.v[f].v) /\ output.val[f] # None

C9_Witness ==
    /\ op = "ManifestFile" /\ Returned /\ output.ok
    /\ IsNull("added_files_count") /\ Get(input.v, "deleted_rows_count") = VInt(0)
    /\ output.val.added_files_count = None
    /\ output.val.deleted_rows_count = Some(0)

\* C10: the split_offsets of a decoded DataFile are those of the record, in
\* the record's order and number, sorted or not; their order makes no
\* decode fail.
C10_SplitOffsets ==
    (op = "DataFile" /\ Returned /\ Has("split_offsets")
        /\ input.v.split_offsets.tag = "array") =>
            /\ output.ok => output.val.split_offsets = Values(input.v.split_offsets)
            /\ output.ok = DataFile_deserialize(With("split_offsets", Longs(<<>>))).ok

C10_Witness ==
    /\ op = "DataFile" /\ Returned /\ output.ok
    /\ Get(input.v, "split_offsets") = Longs(<<900, 0, 400>>)
    /\ output.val.split_offsets = <<900, 0, 400>>
====
